---- MODULE Spec2Model ----
(***************************************************************************)
(* Model of ctldash: the message reconciler (src/src/update.rs), the      *)
(* navigation handler (src/src/app.rs), the systemd/journal/pkexec layer   *)
(* (src/src/systemd.rs) and the message sources of the two views.          *)
(*                                                                         *)
(* Strings are sequences of one-character strings, Option<T> is a          *)
(* sequence of length 0 (None) or 1 (Some), Vec<T> is a sequence.          *)
(***************************************************************************)
EXTENDS Integers, Sequences, FiniteSets, Bags, TLC

VARIABLES
    system_services,    \* AppModel.system_services : Vec<SystemdService>
    user_services,      \* AppModel.user_services   : Vec<SystemdService>
    selected_service,   \* AppModel.selected_service: Option<SystemdService>
    current_scope,      \* AppModel.current_scope   : ServiceScope
    service_logs,       \* AppModel.service_logs    : String
    is_loading,         \* AppModel.is_loading      : bool
    search_filter,      \* AppModel.search_filter   : String
    current_page,       \* AppModel.current_page    : Page
    nav_active,         \* AppModel.nav (the active nav item's Page data)
    tasks,              \* the bag of futures handed to the runtime and not yet finished
    queue,              \* completion messages waiting for update_message
    host,               \* the units each scope's service manager reports
    handled,            \* the message the last step handled, if it handled one
    finished,           \* the future the last step ran to completion, if it ran one
    before,             \* the program's state before the last step
    events,             \* how many user, timer and host events have happened
    invoked             \* one call of a SystemdManager function: its inputs and result

app == <<system_services, user_services, selected_service, current_scope,
         service_logs, is_loading, search_filter, current_page, nav_active>>

\* the application with its runtime and host
program == <<system_services, user_services, selected_service, current_scope,
             service_logs, is_loading, search_filter, current_page, nav_active,
             tasks, queue, host, handled, finished, before, events>>

vars == <<system_services, user_services, selected_service, current_scope,
          service_logs, is_loading, search_filter, current_page, nav_active,
          tasks, queue, host, handled, finished, before, events, invoked>>

----------------------------------------------------------------------------
(* Bounds *)

\* user, timer and host events in one run
MaxEvents == 3

\* units in one ListUnits reply handed to list_services on its own
MaxUnits == 2

----------------------------------------------------------------------------
(* Strings *)

SERVICE_SUFFIX == <<".", "s", "e", "r", "v", "i", "c", "e">>

EndsWith(s, suf) ==
    /\ Len(s) >= Len(suf)
    /\ SubSeq(s, Len(s) - Len(suf) + 1, Len(s)) = suf

EmptyString == <<>>

None == <<>>
Some(x) == <<x>>
IsSome(o) == Len(o) = 1
Unwrap(o) == o[1]

----------------------------------------------------------------------------
(* ServiceScope, Page *)

System == "System"
User == "User"
ServiceScope == {System, User}

PageSystemServices == "SystemServices"
PageUserServices == "UserServices"
PageDetails == "Details"

----------------------------------------------------------------------------
(* SystemdService and the host's units *)

foo_service == <<"f", "o", "o">> \o SERVICE_SUFFIX
bar_service == <<"b", "a", "r">> \o SERVICE_SUFFIX
dbus_socket == <<"d", "b", "u", "s", ".", "s", "o", "c", "k", "e", "t">>

\* one row of the ListUnits reply, with the unit object's UnitFileState
HostUnit(name, description, active, sub, path, ufs) ==
    [name |-> name, description |-> description, load_state |-> "loaded",
     active_state |-> active, sub_state |-> sub, unit_object_path |-> path,
     UnitFileState |-> ufs]

\* the units the two service managers report when the program starts
HostInit ==
    [s \in ServiceScope |->
        IF s = System
        THEN << HostUnit(foo_service, <<"F", "o", "o">>, "active", "running", "/unit/foo", "enabled"),
                HostUnit(dbus_socket, <<"B", "u", "s">>, "active", "listening", "/unit/dbus", "static"),
                HostUnit(bar_service, <<"B", "a", "r">>, "inactive", "dead", "/unit/bar", "disabled") >>
        ELSE << HostUnit(foo_service, <<"f", "o", "o", "2">>, "inactive", "dead", "/unit/foo", "enabled") >>]

SystemdServiceBlankWhenUnknown(u, unit_file_state) ==
    [name |-> u.name, description |-> u.description, load_state |-> u.load_state,
     active_state |-> IF unit_file_state = "unknown" THEN "inactive" ELSE u.active_state,
     sub_state |-> IF unit_file_state = "unknown" THEN "dead" ELSE u.sub_state,
     unit_path |-> u.unit_object_path, unit_file_state |-> unit_file_state]

SystemdServiceSwapsStates(u, unit_file_state) ==
    [name |-> u.name, description |-> u.description, load_state |-> u.load_state,
     active_state |-> u.sub_state, sub_state |-> u.active_state,
     unit_path |-> u.unit_object_path, unit_file_state |-> unit_file_state]

SystemdService(u, unit_file_state) ==
    [name |-> u.name, description |-> u.description, load_state |-> u.load_state,
     active_state |-> u.active_state, sub_state |-> u.sub_state,
     unit_path |-> u.unit_object_path, unit_file_state |-> unit_file_state]

\* no unit object fails
AllReadable == [proxy |-> {}, property |-> {}]

\* get_unit_file_state: an error when the unit's proxy cannot be made,
\* "unknown" when the property read fails; `unreadable` names the unit
\* objects for which each of the two fails
get_unit_file_state(u, unreadable) ==
    IF u.unit_object_path \in unreadable.proxy
    THEN [ok |-> FALSE, error |-> <<"no proxy">>]
    ELSE [ok |-> TRUE,
          value |-> IF u.unit_object_path \in unreadable.property
                    THEN "unknown" ELSE u.UnitFileState]

\* .unwrap_or_else(|_| "unknown".to_string())
unwrap_or_unknown(result) == IF result.ok THEN result.value ELSE "unknown"

RECURSIVE list_services_from(_, _, _)
list_services_from(units, i, unreadable) ==
    IF i > Len(units) THEN <<>>
    ELSE IF ~EndsWith(units[i].name, SERVICE_SUFFIX)
         THEN list_services_from(units, i + 1, unreadable)
         ELSE <<SystemdService(units[i],
                    unwrap_or_unknown(get_unit_file_state(units[i], unreadable)))>>
              \o list_services_from(units, i + 1, unreadable)

list_services_unfiltered(units, unreadable) ==
    [i \in 1..Len(units) |->
        SystemdService(units[i], unwrap_or_unknown(get_unit_file_state(units[i], unreadable)))]

list_services_newest_first(units, unreadable) ==
    LET services == list_services_from(units, 1, unreadable)
    IN  [j \in 1..Len(services) |-> services[Len(services) + 1 - j]]

\* the loop of list_services over the units the ListUnits call returned
list_services(units, unreadable) == list_services_from(units, 1, unreadable)

catalog_build_propagates(connected, listed, units, unreadable) ==
    IF ~connected THEN [ok |-> FALSE, error |-> <<"no connection">>]
    ELSE IF ~listed THEN [ok |-> FALSE, error |-> <<"ListUnits failed">>]
    ELSE IF \E i \in 1..Len(units) :
                /\ EndsWith(units[i].name, SERVICE_SUFFIX)
                /\ ~get_unit_file_state(units[i], unreadable).ok
         THEN [ok |-> FALSE, error |-> <<"no proxy">>]
         ELSE [ok |-> TRUE, value |-> list_services(units, unreadable)]

\* SystemdManager::new(scope) and then list_services(), as the futures run
\* them: an error when the connection or the ListUnits call fails
catalog_build(connected, listed, units, unreadable) ==
    IF ~connected THEN [ok |-> FALSE, error |-> <<"no connection">>]
    ELSE IF ~listed THEN [ok |-> FALSE, error |-> <<"ListUnits failed">>]
    ELSE [ok |-> TRUE, value |-> list_services(units, unreadable)]

\* journalctl's standard output for a unit
Journal(name) == <<"-- Journal of ">> \o name

COULD_NOT_LOAD_LOGS == <<"Could not load logs">>

\* the number of journal lines the handlers ask for
LOG_LINES == 100

----------------------------------------------------------------------------
(* Messages and futures *)

MsgLoadServices(scope) == [type |-> "LoadServices", scope |-> scope]
MsgServicesLoaded(scope, services) ==
    [type |-> "ServicesLoaded", scope |-> scope, services |-> services]
MsgSelectService(service) == [type |-> "SelectService", service |-> service]
MsgLogsLoaded(logs) == [type |-> "LogsLoaded", logs |-> logs]
MsgBackToList == [type |-> "BackToList"]
MsgCommand(type, name) == [type |-> type, name |-> name]
MsgServiceActionComplete == [type |-> "ServiceActionComplete"]
MsgTick == [type |-> "Tick"]
MsgRefreshCurrentService == [type |-> "RefreshCurrentService"]
MsgCurrentServiceRefreshed(service, logs) ==
    [type |-> "CurrentServiceRefreshed", service |-> service, logs |-> logs]
MsgSearchFilterChanged(filter) == [type |-> "SearchFilterChanged", filter |-> filter]

CommandTypes ==
    {"StartService", "StopService", "RestartService", "EnableService", "DisableService"}

\* the future of LoadServices
TaskLoad(scope) == [kind |-> "Load", scope |-> scope]
\* the future of SelectService
TaskLogs(scope, name) ==
    [kind |-> "Logs", scope |-> scope, name |-> name, lines |-> LOG_LINES]
\* the future of Start/Stop/Restart/Enable/DisableService
TaskCommand(type, scope, name) ==
    [kind |-> "Command", command |-> type, scope |-> scope, name |-> name]
\* the future of RefreshCurrentService
TaskRefresh(scope, name) == [kind |-> "Refresh", scope |-> scope, name |-> name]

\* The Task a handler returns; `waiting` are the messages not yet handled.
\* A future handed to the runtime,
Perform(task, waiting) == tasks' = tasks (+) SetToBag({task}) /\ queue' = waiting
\* or Task::perform(async {}, |_| message), which is complete when it is made,
Emit(message, waiting) == queue' = Append(waiting, message) /\ tasks' = tasks
\* or Task::none()
TaskNone(waiting) == tasks' = tasks /\ queue' = waiting

NoMessage == [type |-> "None"]
NoFuture == [kind |-> "None"]

\* the program's state as a record
Snapshot ==
    [system_services |-> system_services, user_services |-> user_services,
     selected_service |-> selected_service, current_scope |-> current_scope,
     service_logs |-> service_logs, is_loading |-> is_loading,
     search_filter |-> search_filter, current_page |-> current_page,
     nav_active |-> nav_active, tasks |-> tasks, queue |-> queue]

----------------------------------------------------------------------------
(* Vec helpers *)

\* services.iter().find(|s| s.name == name).cloned()
RECURSIVE FindFrom(_, _, _)
FindFrom(services, name, i) ==
    IF i > Len(services) THEN None
    ELSE IF services[i].name = name THEN Some(services[i])
    ELSE FindFrom(services, name, i + 1)

Find(services, name) == FindFrom(services, name, 1)

\* services.iter().position(|s| s.name == name), 0 for None
RECURSIVE PositionFrom(_, _, _)
PositionFrom(services, name, i) ==
    IF i > Len(services) THEN 0
    ELSE IF services[i].name = name THEN i
    ELSE PositionFrom(services, name, i + 1)

Position(services, name) == PositionFrom(services, name, 1)

RemoveAt(seq, i) == SubSeq(seq, 1, i - 1) \o SubSeq(seq, i + 1, Len(seq))

----------------------------------------------------------------------------
(* AppModel::update_message, one operator per match arm *)

LoadServicesKeepsScope(scope, waiting) ==
    /\ is_loading' = TRUE
    /\ Perform(TaskLoad(scope), waiting)
    /\ UNCHANGED <<system_services, user_services, selected_service, current_scope,
                   service_logs, search_filter, current_page, nav_active>>

LoadServices(scope, waiting) ==
    /\ is_loading' = TRUE
    /\ current_scope' = scope
    /\ Perform(TaskLoad(scope), waiting)
    /\ UNCHANGED <<system_services, user_services, selected_service, service_logs,
                   search_filter, current_page, nav_active>>

RebindClears(selected, services) == None

\* the selection after a reload stored `services`
Rebind(selected, services) ==
    IF IsSome(selected) THEN Find(services, Unwrap(selected).name) ELSE selected

ServicesLoadedKeepsSelection(scope, services, waiting) ==
    /\ is_loading' = FALSE
    /\ IF scope = System
       THEN system_services' = services /\ UNCHANGED user_services
       ELSE user_services' = services /\ UNCHANGED system_services
    /\ TaskNone(waiting)
    /\ UNCHANGED <<selected_service, current_scope, service_logs, search_filter,
                   current_page, nav_active>>

ServicesLoadedFirstWins(scope, services, waiting) ==
    /\ IF is_loading
       THEN /\ is_loading' = FALSE
            /\ selected_service' = Rebind(selected_service, services)
            /\ IF scope = System
               THEN system_services' = services /\ UNCHANGED user_services
               ELSE user_services' = services /\ UNCHANGED system_services
       ELSE UNCHANGED <<is_loading, selected_service, system_services, user_services>>
    /\ TaskNone(waiting)
    /\ UNCHANGED <<current_scope, service_logs, search_filter, current_page, nav_active>>

ServicesLoaded(scope, services, waiting) ==
    /\ is_loading' = FALSE
    /\ IF scope = System
       THEN /\ system_services' = services
            /\ selected_service' = Rebind(selected_service, services)
            /\ UNCHANGED user_services
       ELSE /\ user_services' = services
            /\ selected_service' = Rebind(selected_service, services)
            /\ UNCHANGED system_services
    /\ TaskNone(waiting)
    /\ UNCHANGED <<current_scope, service_logs, search_filter, current_page, nav_active>>

SelectServiceSkipsFetchWhenBusy(service, waiting) ==
    /\ selected_service' = Some(service)
    /\ current_page' = PageDetails
    /\ IF tasks = EmptyBag
       THEN Perform(TaskLogs(current_scope, service.name), waiting)
       ELSE TaskNone(waiting)
    /\ UNCHANGED <<system_services, user_services, current_scope, service_logs,
                   is_loading, search_filter, nav_active>>

SelectService(service, waiting) ==
    /\ selected_service' = Some(service)
    /\ current_page' = PageDetails
    /\ Perform(TaskLogs(current_scope, service.name), waiting)
    /\ UNCHANGED <<system_services, user_services, current_scope, service_logs,
                   is_loading, search_filter, nav_active>>

LogsLoaded(logs, waiting) ==
    /\ service_logs' = logs
    /\ TaskNone(waiting)
    /\ UNCHANGED <<system_services, user_services, selected_service, current_scope,
                   is_loading, search_filter, current_page, nav_active>>

BackToList(waiting) ==
    /\ selected_service' = None
    /\ current_page' = IF current_scope = System THEN PageSystemServices
                                                 ELSE PageUserServices
    /\ TaskNone(waiting)
    /\ UNCHANGED <<system_services, user_services, current_scope, service_logs,
                   is_loading, search_filter, nav_active>>

\* StartService, StopService, RestartService, EnableService, DisableService
ServiceCommand(type, name, waiting) ==
    /\ Perform(TaskCommand(type, current_scope, name), waiting)
    /\ UNCHANGED app

ServiceActionCompleteNoReload(waiting) ==
    /\ TaskNone(waiting)
    /\ UNCHANGED app

\* ServiceActionComplete | RefreshServices
ServiceActionComplete(waiting) ==
    /\ Emit(MsgLoadServices(current_scope), waiting)
    /\ UNCHANGED app

TickAlwaysRefreshes(waiting) ==
    /\ Emit(MsgRefreshCurrentService, waiting)
    /\ UNCHANGED app

Tick(waiting) ==
    /\ IF IsSome(selected_service)
       THEN Emit(MsgRefreshCurrentService, waiting)
       ELSE TaskNone(waiting)
    /\ UNCHANGED app

RefreshCurrentService(waiting) ==
    /\ IF IsSome(selected_service)
       THEN Perform(TaskRefresh(current_scope, Unwrap(selected_service).name), waiting)
       ELSE TaskNone(waiting)
    /\ UNCHANGED app

MergeAppendsWhenAbsent(services, updated_service) ==
    LET index == Position(services, updated_service.name)
    IN  IF index = 0 THEN Append(services, updated_service)
        ELSE [services EXCEPT ![index] = updated_service]

\* services[index] = updated_service when a position is found
Merge(services, updated_service) ==
    LET index == Position(services, updated_service.name)
    IN  IF index = 0 THEN services
        ELSE [services EXCEPT ![index] = updated_service]

CurrentServiceRefreshedClearsOnNone(service, logs, waiting) ==
    /\ IF IsSome(service)
       THEN /\ selected_service' = Some(Unwrap(service))
            /\ service_logs' = logs
            /\ IF current_scope = System
               THEN /\ system_services' = Merge(system_services, Unwrap(service))
                    /\ UNCHANGED user_services
               ELSE /\ user_services' = Merge(user_services, Unwrap(service))
                    /\ UNCHANGED system_services
       ELSE /\ selected_service' = None
            /\ service_logs' = logs
            /\ UNCHANGED <<system_services, user_services>>
    /\ TaskNone(waiting)
    /\ UNCHANGED <<current_scope, is_loading, search_filter, current_page, nav_active>>

CurrentServiceRefreshed(service, logs, waiting) ==
    /\ IF IsSome(service)
       THEN /\ selected_service' = Some(Unwrap(service))
            /\ service_logs' = logs
            /\ IF current_scope = System
               THEN /\ system_services' = Merge(system_services, Unwrap(service))
                    /\ UNCHANGED user_services
               ELSE /\ user_services' = Merge(user_services, Unwrap(service))
                    /\ UNCHANGED system_services
       ELSE UNCHANGED <<selected_service, service_logs, system_services, user_services>>
    /\ TaskNone(waiting)
    /\ UNCHANGED <<current_scope, is_loading, search_filter, current_page, nav_active>>

SearchFilterChangedReloads(filter, waiting) ==
    /\ search_filter' = filter
    /\ Emit(MsgLoadServices(current_scope), waiting)
    /\ UNCHANGED <<system_services, user_services, selected_service, current_scope,
                   service_logs, is_loading, current_page, nav_active>>

SearchFilterChanged(filter, waiting) ==
    /\ search_filter' = filter
    /\ TaskNone(waiting)
    /\ UNCHANGED <<system_services, user_services, selected_service, current_scope,
                   service_logs, is_loading, current_page, nav_active>>

update_message(message, waiting) ==
    CASE message.type = "LoadServices" -> LoadServices(message.scope, waiting)
      [] message.type = "ServicesLoaded" ->
            ServicesLoaded(message.scope, message.services, waiting)
      [] message.type = "SelectService" -> SelectService(message.service, waiting)
      [] message.type = "LogsLoaded" -> LogsLoaded(message.logs, waiting)
      [] message.type = "BackToList" -> BackToList(waiting)
      [] message.type \in CommandTypes ->
            ServiceCommand(message.type, message.name, waiting)
      [] message.type \in {"ServiceActionComplete", "RefreshServices"} ->
            ServiceActionComplete(waiting)
      [] message.type = "Tick" -> Tick(waiting)
      [] message.type = "RefreshCurrentService" -> RefreshCurrentService(waiting)
      [] message.type = "CurrentServiceRefreshed" ->
            CurrentServiceRefreshed(message.service, message.logs, waiting)
      [] message.type = "SearchFilterChanged" ->
            SearchFilterChanged(message.filter, waiting)

on_nav_select_keeps_selection(page, waiting) ==
    /\ nav_active' = page
    /\ Emit(MsgLoadServices(IF page = PageSystemServices THEN System ELSE User), waiting)
    /\ UNCHANGED <<system_services, user_services, selected_service, current_scope,
                   service_logs, is_loading, search_filter, current_page>>

\* AppModel::on_nav_select: the nav item of `page` was activated
on_nav_select(page, waiting) ==
    /\ nav_active' = page
    /\ selected_service' = None
    /\ Emit(MsgLoadServices(IF page = PageSystemServices THEN System ELSE User), waiting)
    /\ UNCHANGED <<system_services, user_services, current_scope, service_logs,
                   is_loading, search_filter, current_page>>

----------------------------------------------------------------------------
(* systemd.rs: subprocesses and bus calls *)

Ok == [ok |-> TRUE]
OkValue(v) == [ok |-> TRUE, value |-> v]
Err(e) == [ok |-> FALSE, error |-> e]

\* what running a subprocess can give: it could not be spawned, or it exited
ProcessOutput(spawned, status, stdout, stderr) ==
    [spawned |-> spawned, status |-> status, stdout |-> stdout, stderr |-> stderr]

is_flatpak_needs_both(marker_exists, flatpak_id_set) == marker_exists /\ flatpak_id_set

is_flatpak(marker_exists, flatpak_id_set) == marker_exists \/ flatpak_id_set

enable_argv(service_name, flatpak) ==
    IF flatpak
    THEN << <<"flatpak-spawn">>, <<"--host">>, <<"pkexec">>, <<"systemctl">>,
            <<"enable">>, service_name >>
    ELSE << <<"pkexec">>, <<"systemctl">>, <<"enable">>, service_name >>

disable_argv(service_name, flatpak) ==
    IF flatpak
    THEN << <<"flatpak-spawn">>, <<"--host">>, <<"pkexec">>, <<"systemctl">>,
            <<"disable">>, service_name >>
    ELSE << <<"pkexec">>, <<"systemctl">>, <<"disable">>, service_name >>

enable_service_ignores_status(service_name, flatpak, output) ==
    IF ~output.spawned
    THEN Err(<<"Failed to execute ">> \o enable_argv(service_name, flatpak)[1])
    ELSE Ok

\* enable_service, given what running enable_argv produced
enable_service(service_name, flatpak, output) ==
    IF ~output.spawned
    THEN Err(<<"Failed to execute ">> \o enable_argv(service_name, flatpak)[1])
    ELSE IF output.status # 0
         THEN Err(<<"Failed to enable service: ">> \o output.stderr)
         ELSE Ok

\* disable_service, given what running disable_argv produced
disable_service(service_name, flatpak, output) ==
    IF ~output.spawned
    THEN Err(<<"Failed to execute ">> \o disable_argv(service_name, flatpak)[1])
    ELSE IF output.status # 0
         THEN Err(<<"Failed to disable service: ">> \o output.stderr)
         ELSE Ok

log_unit_name_always_appends(service_name) == service_name \o SERVICE_SUFFIX

\* the unit name get_service_logs asks journalctl for
log_unit_name(service_name) ==
    IF EndsWith(service_name, SERVICE_SUFFIX) THEN service_name
    ELSE service_name \o SERVICE_SUFFIX

DecimalDigits == <<"0", "1", "2", "3", "4", "5", "6", "7", "8", "9">>

\* u32::to_string
RECURSIVE to_string(_)
to_string(n) ==
    IF n < 10 THEN <<DecimalDigits[n + 1]>>
    ELSE to_string(n \div 10) \o <<DecimalDigits[(n % 10) + 1]>>

logs_argv(service_name, lines, flatpak) ==
    IF flatpak
    THEN << <<"flatpak-spawn">>, <<"--host">>, <<"journalctl">>, <<"-u">>,
            log_unit_name(service_name), <<"-n">>, to_string(lines), <<"--no-pager">> >>
    ELSE << <<"journalctl">>, <<"-u">>, log_unit_name(service_name), <<"-n">>,
            to_string(lines), <<"--no-pager">> >>

\* get_service_logs, given what running logs_argv produced
get_service_logs(service_name, lines, flatpak, output) ==
    IF ~output.spawned
    THEN Err(<<"Failed to execute ">> \o logs_argv(service_name, lines, flatpak)[1])
    ELSE OkValue(output.stdout)

unwrap_or_error_text(result) == IF result.ok THEN result.value ELSE result.error

\* Result::unwrap_or_default on a Result<String>
unwrap_or_default(result) == IF result.ok THEN result.value ELSE EmptyString

\* the manager method each bus command calls, with its arguments
start_service(service_name) == [method |-> "StartUnit", args |-> <<service_name, "replace">>]

stop_service_restarts(service_name) ==
    [method |-> "RestartUnit", args |-> <<service_name, "replace">>]

stop_service(service_name) == [method |-> "StopUnit", args |-> <<service_name, "replace">>]
restart_service(service_name) == [method |-> "RestartUnit", args |-> <<service_name, "replace">>]

----------------------------------------------------------------------------
(* The host: what the service manager, systemctl and journalctl do *)

HasUnit(units, name) == \E i \in 1..Len(units) : units[i].name = name

\* the service manager ran a manager method on a unit it knows
ManagerEffect(units, call) ==
    [i \in 1..Len(units) |->
        IF units[i].name # call.args[1] THEN units[i]
        ELSE IF call.method = "StopUnit"
             THEN [units[i] EXCEPT !.active_state = "inactive", !.sub_state = "dead"]
             ELSE [units[i] EXCEPT !.active_state = "active", !.sub_state = "running"]]

\* systemctl enable/disable exited 0: argv names no manager, it acts on the system one
SystemctlEffect(h, argv) ==
    LET action == argv[Len(argv) - 1][1]
        name == argv[Len(argv)]
    IN  [h EXCEPT ![System] =
            [i \in 1..Len(h[System]) |->
                IF h[System][i].name # name THEN h[System][i]
                ELSE [h[System][i] EXCEPT
                        !.UnitFileState = IF action = "enable" THEN "enabled" ELSE "disabled"]]]

\* what a run of systemctl enable/disable can give on host h
SystemctlOutputs(h, argv) ==
    {ProcessOutput(FALSE, 0, EmptyString, EmptyString),
     ProcessOutput(TRUE, 1, EmptyString, <<"not authorized">>)}
    \cup (IF HasUnit(h[System], argv[Len(argv)])
          THEN {ProcessOutput(TRUE, 0, EmptyString, EmptyString)}
          ELSE {})

UnitOfLogsArgv(argv) == argv[Len(argv) - 3]

\* what a run of journalctl can give: it is not spawned, it exits with an
\* error after printing what it had read, or it succeeds
JournalctlOutputs(argv) ==
    {ProcessOutput(FALSE, 0, EmptyString, EmptyString),
     ProcessOutput(TRUE, 1, Journal(UnitOfLogsArgv(argv)), <<"no journal">>),
     ProcessOutput(TRUE, 0, Journal(UnitOfLogsArgv(argv)), EmptyString)}

----------------------------------------------------------------------------
(* The futures the handlers start; each step runs one to its completion message *)

\* unit objects whose UnitFileState read can fail
Unreadable == {AllReadable}

\* no subprocess was run
NotRun == [spawned |-> FALSE, status |-> 0, stdout |-> EmptyString, stderr |-> <<"not run">>]

\* an external call of the future failed
Failed(outcome) ==
    \/ ~outcome.connected
    \/ "called" \in DOMAIN outcome /\ ~outcome.called
    \/ /\ "output" \in DOMAIN outcome
       /\ outcome.output # NotRun
       /\ ~outcome.output.spawned \/ outcome.output.status # 0

\* nothing more is recorded about a finished future
NoNote == <<>>

FinishSilentOnFailure(task, outcome, note, message) ==
    /\ tasks' = tasks (-) SetToBag({task})
    /\ queue' = IF Failed(outcome) THEN queue ELSE Append(queue, message)
    /\ handled' = NoMessage
    /\ finished' = [kind |-> task.kind, task |-> task, failed |-> Failed(outcome),
                    note |-> note, message |-> message]
    /\ before' = Snapshot
    /\ UNCHANGED <<app, events, invoked>>

\* the future `task` completes with `message`; `outcome` is what its calls met,
\* `note` what it computed on the way
Finish(task, outcome, note, message) ==
    /\ tasks' = tasks (-) SetToBag({task})
    /\ queue' = Append(queue, message)
    /\ handled' = NoMessage
    /\ finished' = [kind |-> task.kind, task |-> task, failed |-> Failed(outcome),
                    note |-> note, message |-> message]
    /\ before' = Snapshot
    /\ UNCHANGED <<app, events, invoked>>

\* SystemdManager::new and one manager method call: what they can meet
BusOutcomes ==
    {[connected |-> FALSE, called |-> FALSE],
     [connected |-> TRUE, called |-> FALSE],
     [connected |-> TRUE, called |-> TRUE]}

\* the message the LoadServices future maps to
LoadResult(scope, connected, listed, units, unreadable) ==
    LET services == catalog_build(connected, listed, units, unreadable)
    IN  IF services.ok
        THEN MsgServicesLoaded(scope, services.value)
        ELSE MsgServicesLoaded(System, <<>>)

RunLoad ==
    \E task \in BagToSet(tasks) :
        /\ task.kind = "Load"
        /\ \E outcome \in BusOutcomes, unreadable \in Unreadable :
              Finish(task, outcome, NoNote,
                     LoadResult(task.scope, outcome.connected, outcome.called,
                                host[task.scope], unreadable))
        /\ UNCHANGED host

\* the message the SelectService future maps to
LogsResult(name, lines, connected, flatpak, output) ==
    IF connected
    THEN MsgLogsLoaded(unwrap_or_default(get_service_logs(name, lines, flatpak, output)))
    ELSE MsgLogsLoaded(COULD_NOT_LOAD_LOGS)

\* SystemdManager::new and the journalctl run: what they can meet
LogsOutcomes(argv) ==
    {[connected |-> FALSE, output |-> NotRun]}
    \cup {[connected |-> TRUE, output |-> o] : o \in JournalctlOutputs(argv)}

RunLogs ==
    \E task \in BagToSet(tasks) :
        /\ task.kind = "Logs"
        /\ \E flatpak \in BOOLEAN :
              \E outcome \in LogsOutcomes(logs_argv(task.name, task.lines, flatpak)) :
                  Finish(task, outcome,
                         IF outcome.connected THEN [output |-> outcome.output]
                                              ELSE NoNote,
                         LogsResult(task.name, task.lines, outcome.connected, flatpak,
                                    outcome.output))
        /\ UNCHANGED host

\* the manager method a bus command calls
BusCall(command, name) ==
    CASE command = "StartService" -> start_service(name)
      [] command = "StopService" -> stop_service(name)
      [] command = "RestartService" -> restart_service(name)

\* Start/Stop/RestartService: the bus call, when the connection opened
RunBusCommand ==
    \E task \in BagToSet(tasks) :
        /\ task.kind = "Command"
        /\ task.command \in {"StartService", "StopService", "RestartService"}
        /\ \E outcome \in BusOutcomes :
              /\ outcome.called => HasUnit(host[task.scope], task.name)
              /\ host' = IF outcome.called
                         THEN [host EXCEPT ![task.scope] =
                                  ManagerEffect(@, BusCall(task.command, task.name))]
                         ELSE host
              /\ Finish(task, outcome, NoNote, MsgServiceActionComplete)

\* the command line and the result of Enable/DisableService's subprocess
SystemctlArgv(command, name, flatpak) ==
    IF command = "EnableService" THEN enable_argv(name, flatpak)
                                 ELSE disable_argv(name, flatpak)

SystemctlResult(command, name, flatpak, output) ==
    IF command = "EnableService" THEN enable_service(name, flatpak, output)
                                 ELSE disable_service(name, flatpak, output)

\* SystemdManager::new and the systemctl run: what they can meet
SystemctlOutcomes(h, argv) ==
    {[connected |-> FALSE, output |-> NotRun]}
    \cup {[connected |-> TRUE, output |-> o] : o \in SystemctlOutputs(h, argv)}

\* Enable/DisableService: the subprocess, when the connection opened
RunSystemctlCommand ==
    \E task \in BagToSet(tasks) :
        /\ task.kind = "Command"
        /\ task.command \in {"EnableService", "DisableService"}
        /\ \E flatpak \in BOOLEAN :
              LET argv == SystemctlArgv(task.command, task.name, flatpak)
              IN  \E outcome \in SystemctlOutcomes(host, argv) :
                    LET result == SystemctlResult(task.command, task.name, flatpak,
                                                  outcome.output)
                    IN  /\ host' = IF outcome.connected /\ result.ok
                                   THEN SystemctlEffect(host, argv)
                                   ELSE host
                        /\ Finish(task, outcome,
                                  IF outcome.connected
                                  THEN [output |-> outcome.output, result |-> result]
                                  ELSE NoNote,
                                  MsgServiceActionComplete)

\* the message the RefreshCurrentService future maps to
RefreshResult(service_name, connected, listed, units, unreadable, flatpak, output) ==
    LET services == catalog_build(connected, listed, units, unreadable)
    IN  IF services.ok
        THEN LET updated_service == Find(services.value, service_name)
                 logs == IF IsSome(updated_service)
                         THEN unwrap_or_default(
                                get_service_logs(service_name, LOG_LINES, flatpak, output))
                         ELSE EmptyString
             IN  MsgCurrentServiceRefreshed(updated_service, logs)
        ELSE MsgCurrentServiceRefreshed(None, EmptyString)

\* SystemdManager::new, ListUnits and the journalctl run: what they can meet
RefreshOutcomes(units, name, argv) ==
    {[connected |-> FALSE, called |-> FALSE, output |-> NotRun],
     [connected |-> TRUE, called |-> FALSE, output |-> NotRun]}
    \cup (IF HasUnit(units, name)
          THEN {[connected |-> TRUE, called |-> TRUE, output |-> o] :
                    o \in JournalctlOutputs(argv)}
          ELSE {[connected |-> TRUE, called |-> TRUE, output |-> NotRun]})

RunRefresh ==
    \E task \in BagToSet(tasks) :
        /\ task.kind = "Refresh"
        /\ \E unreadable \in Unreadable, flatpak \in BOOLEAN :
              \E outcome \in RefreshOutcomes(host[task.scope], task.name,
                                logs_argv(task.name, LOG_LINES, flatpak)) :
                  Finish(task, outcome, NoNote,
                         RefreshResult(task.name, outcome.connected, outcome.called,
                                       host[task.scope], unreadable, flatpak,
                                       outcome.output))
        /\ UNCHANGED host

----------------------------------------------------------------------------
(* The views: which messages the widgets on screen can send *)

UpperCase == <<"A", "B", "C", "D", "E", "F", "G", "H", "I", "J", "K", "L", "M",
               "N", "O", "P", "Q", "R", "S", "T", "U", "V", "W", "X", "Y", "Z">>
LowerCase == <<"a", "b", "c", "d", "e", "f", "g", "h", "i", "j", "k", "l", "m",
               "n", "o", "p", "q", "r", "s", "t", "u", "v", "w", "x", "y", "z">>

to_lowercase_keeps_case(s) == s

to_lowercase(s) ==
    [i \in 1..Len(s) |->
        IF \E k \in 1..Len(UpperCase) : UpperCase[k] = s[i]
        THEN LowerCase[CHOOSE k \in 1..Len(UpperCase) : UpperCase[k] = s[i]]
        ELSE s[i]]

contains(s, pattern) ==
    \E i \in 0..(Len(s) - Len(pattern)) : SubSeq(s, i + 1, i + Len(pattern)) = pattern

\* the rows view_services_list shows for a catalog
filtered_services(services, filter) ==
    IF filter = EmptyString THEN services
    ELSE LET filter_lower == to_lowercase(filter)
             Keep(service) ==
                \/ contains(to_lowercase(service.name), filter_lower)
                \/ contains(to_lowercase(service.description), filter_lower)
         IN  SelectSeq(services, Keep)

\* the catalog AppModel::view hands to the list view
ShownServices ==
    IF nav_active = PageSystemServices THEN system_services ELSE user_services

\* texts typed into the search field
FilterInputs == {EmptyString, <<"F", "O">>}

Event ==
    /\ events < MaxEvents
    /\ events' = events + 1

FromView(message) ==
    /\ Event
    /\ update_message(message, queue)
    /\ handled' = message
    /\ finished' = NoFuture
    /\ before' = Snapshot
    /\ UNCHANGED <<host, invoked>>

\* a row of the list is pressed
PressService ==
    /\ selected_service = None
    /\ ~is_loading
    /\ LET rows == filtered_services(ShownServices, search_filter)
       IN  \E i \in 1..Len(rows) : FromView(MsgSelectService(rows[i]))

\* the text of the search field is edited
TypeFilter ==
    /\ selected_service = None
    /\ \E filter \in FilterInputs \ {search_filter} :
          FromView(MsgSearchFilterChanged(filter))

PressBack ==
    /\ IsSome(selected_service)
    /\ FromView(MsgBackToList)

DetailCommandsAlwaysToggle(service) ==
    (IF service.sub_state = "running" THEN {"StopService"} ELSE {"StartService"})
    \cup {"RestartService"}
    \cup (IF service.unit_file_state = "enabled" THEN {"DisableService"}
                                                 ELSE {"EnableService"})

\* the messages the detail view's buttons and toggler carry
DetailCommands(service) ==
    (IF service.sub_state = "running" THEN {"StopService"} ELSE {"StartService"})
    \cup {"RestartService"}
    \cup (IF service.unit_file_state = "enabled" THEN {"DisableService"} ELSE {})
    \cup (IF service.unit_file_state = "disabled" THEN {"EnableService"} ELSE {})

PressCommand ==
    /\ IsSome(selected_service)
    /\ \E type \in DetailCommands(Unwrap(selected_service)) :
          FromView(MsgCommand(type, Unwrap(selected_service).name))

\* the timer subscription fires
TimerTick == \E message \in {MsgTick} : FromView(message)

NavSelect ==
    /\ Event
    /\ \E page \in {PageSystemServices, PageUserServices} :
          /\ on_nav_select(page, queue)
          /\ handled' = [type |-> "on_nav_select", page |-> page]
    /\ finished' = NoFuture
    /\ before' = Snapshot
    /\ UNCHANGED <<host, invoked>>

\* the runtime hands the oldest waiting message to update_message
Deliver ==
    /\ queue # <<>>
    /\ update_message(Head(queue), Tail(queue))
    /\ handled' = Head(queue)
    /\ finished' = NoFuture
    /\ before' = Snapshot
    /\ UNCHANGED <<host, events, invoked>>

----------------------------------------------------------------------------
(* The host changes on its own *)

\* the units the service manager may stop listing
Unloadable == {foo_service}

\* the service manager drops a service unit from its listing
HostUnloads ==
    /\ Event
    /\ \E s \in ServiceScope :
        \E i \in 1..Len(host[s]) :
            /\ host[s][i].name \in Unloadable
            /\ host' = [host EXCEPT ![s] = RemoveAt(@, i)]
            /\ handled' = NoMessage
            /\ finished' = NoFuture
            /\ before' = Snapshot
            /\ UNCHANGED <<app, tasks, queue, invoked>>

----------------------------------------------------------------------------
(* Specification *)

\* AppModel::init
Started ==
    /\ system_services = <<>>
    /\ user_services = <<>>
    /\ selected_service = None
    /\ current_scope = System
    /\ service_logs = EmptyString
    /\ is_loading = FALSE
    /\ search_filter = EmptyString
    /\ current_page = PageSystemServices
    /\ nav_active = PageSystemServices
    /\ tasks = EmptyBag
    /\ queue = <<MsgLoadServices(System)>>
    /\ host = HostInit
    /\ handled = NoMessage
    /\ finished = NoFuture
    /\ before = Snapshot
    /\ events = 0

\* no SystemdManager function is called on its own
NoCall == [fn |-> "None"]

Init == Started /\ invoked = NoCall

Next ==
    \/ PressService
    \/ TypeFilter
    \/ PressBack
    \/ PressCommand
    \/ TimerTick
    \/ NavSelect
    \/ Deliver
    \/ RunLoad
    \/ RunLogs
    \/ RunBusCommand
    \/ RunSystemctlCommand
    \/ RunRefresh
    \/ HostUnloads

Spec == Init /\ [][Next]_vars

----------------------------------------------------------------------------
(* The SystemdManager functions called on their own *)

baz_service == <<"b", "a", "z">> \o SERVICE_SUFFIX

\* rows a ListUnits reply can hold: running and stopped services, a socket,
\* and a service that is referenced but has no unit file
ListedUnits ==
    { HostUnit(foo_service, <<"F", "o", "o">>, "active", "running", "/unit/foo", "enabled"),
      HostUnit(bar_service, <<"B", "a", "r">>, "inactive", "dead", "/unit/bar", "disabled"),
      HostUnit(dbus_socket, <<"B", "u", "s">>, "active", "listening", "/unit/dbus", "static"),
      [HostUnit(baz_service, baz_service, "inactive", "dead", "/unit/baz", "")
          EXCEPT !.load_state = "not-found"] }

\* ListUnits replies of up to n units; the manager lists a unit once
UnitLists(n) ==
    UNION { { units \in [1..k -> ListedUnits] :
                \A i, j \in 1..k : units[i] = units[j] => i = j } : k \in 0..n }

\* the unit objects whose proxy or property read may fail
FaultyPaths == {"/unit/foo", "/unit/baz"}

Unreadables == [proxy : SUBSET FaultyPaths, property : SUBSET FaultyPaths]

\* what a run of pkexec systemctl can give
RunnerOutputs ==
    {ProcessOutput(FALSE, 0, EmptyString, EmptyString),
     ProcessOutput(TRUE, 1, EmptyString, <<"not authorized">>),
     ProcessOutput(TRUE, 0, EmptyString, EmptyString)}

\* names get_service_logs can be given, with and without the suffix
LogNames ==
    {<<"f", "o", "o">>, foo_service, SERVICE_SUFFIX,
     <<"s", "e", "r", "v", "i", "c", "e">>, foo_service \o SERVICE_SUFFIX}

LineCounts == {7, LOG_LINES}

\* a unit file installed on the host and its enablement state
UnitFile(name, state) == [name |-> name, state |-> state]

\* the unit files that may be installed; baz.service has none
UnitFiles ==
    {UnitFile(foo_service, "enabled"), UnitFile(bar_service, "disabled"),
     UnitFile(dbus_socket, "static")}

\* the hosts list_services can run on: the unit files installed and the
\* units the manager has loaded and lists, a listed unit that reports a
\* unit-file state being installed
ListServicesCalls ==
    UNION { [fn : {"list_services"}, connected : BOOLEAN, listed : BOOLEAN,
             units : {units},
             unit_files : {files \in SUBSET UnitFiles :
                              \A i \in 1..Len(units) :
                                  units[i].UnitFileState # ""
                                    => UnitFile(units[i].name, units[i].UnitFileState)
                                          \in files},
             unreadable : Unreadables] : units \in UnitLists(MaxUnits) }

RunnerCalls ==
    [fn : {"enable_service", "disable_service"},
     service_name : {foo_service, bar_service},
     marker_exists : BOOLEAN, flatpak_id_set : BOOLEAN, output : RunnerOutputs]

LogsCalls ==
    UNION { { [fn |-> "get_service_logs", service_name |-> n, lines |-> k,
               marker_exists |-> m, flatpak_id_set |-> e, output |-> o] :
                 o \in JournalctlOutputs(logs_argv(n, k, m \/ e)) } :
            n \in LogNames, k \in LineCounts, m \in BOOLEAN, e \in BOOLEAN }

\* records a cached catalog can hold: the listed services and the user
\* scope's unit, whose description alone has a digit
ShownRecords ==
    {SystemdService(u, u.UnitFileState) :
        u \in {v \in ListedUnits \cup {HostInit[User][1]} :
                  EndsWith(v.name, SERVICE_SUFFIX)}}

\* cached catalogs of up to n records, one per name
ShownCatalogs(n) ==
    UNION { { services \in [1..k -> ShownRecords] :
                \A i, j \in 1..k : services[i].name = services[j].name => i = j } :
            k \in 0..n }

\* texts of the search field: none, in another case than the names, found
\* in the middle, in a description only, in every name, and in nothing
SearchFilters ==
    {EmptyString, <<"F", "O">>, <<"o", "O">>, <<"A", "R">>, <<"2">>,
     <<".", "S", "E", "R", "V", "I", "C", "E">>, <<"x">>, <<"f", "o", "o", "o">>}

ViewServicesListCalls ==
    [fn : {"view_services_list"}, services : ShownCatalogs(MaxUnits),
     search_filter : SearchFilters]

\* records the detail view can be given: the ones above, and the same with
\* an enablement state that could not be read or cannot be toggled
DetailRecords ==
    ShownRecords
    \cup {[record EXCEPT !.unit_file_state = state] :
             record \in ShownRecords, state \in {"unknown", "static"}}

ViewServiceDetailCalls == [fn : {"view_service_detail"}, service : DetailRecords]

\* a call that has not returned
Pending(input) == [fn |-> input.fn, input |-> input, returned |-> FALSE]

\* the call returns: what it ran and what it gave back
Return(argv, result) ==
    /\ ~invoked.returned
    /\ invoked' = [invoked EXCEPT !.returned = TRUE] @@ [argv |-> argv, result |-> result]
    /\ UNCHANGED program

CallListServices ==
    /\ invoked.fn = "list_services"
    /\ Return(<<>>, catalog_build(invoked.input.connected, invoked.input.listed,
                                  invoked.input.units, invoked.input.unreadable))

CallEnableService ==
    /\ invoked.fn = "enable_service"
    /\ LET flatpak == is_flatpak(invoked.input.marker_exists, invoked.input.flatpak_id_set)
       IN  Return(enable_argv(invoked.input.service_name, flatpak),
                  enable_service(invoked.input.service_name, flatpak, invoked.input.output))

CallDisableService ==
    /\ invoked.fn = "disable_service"
    /\ LET flatpak == is_flatpak(invoked.input.marker_exists, invoked.input.flatpak_id_set)
       IN  Return(disable_argv(invoked.input.service_name, flatpak),
                  disable_service(invoked.input.service_name, flatpak, invoked.input.output))

CallGetServiceLogs ==
    /\ invoked.fn = "get_service_logs"
    /\ LET flatpak == is_flatpak(invoked.input.marker_exists, invoked.input.flatpak_id_set)
       IN  Return(logs_argv(invoked.input.service_name, invoked.input.lines, flatpak),
                  get_service_logs(invoked.input.service_name, invoked.input.lines,
                                   flatpak, invoked.input.output))

\* the rows view_services_list builds from the catalog and filter it is given
CallViewServicesList ==
    /\ invoked.fn = "view_services_list"
    /\ Return(<<>>, filtered_services(invoked.input.services, invoked.input.search_filter))

\* the messages the widgets view_service_detail builds for a record can send
CallViewServiceDetail ==
    /\ invoked.fn = "view_service_detail"
    /\ Return(<<>>, {MsgCommand(type, invoked.input.service.name) :
                        type \in DetailCommands(invoked.input.service)})

\* the catalog list_services returned reaches update_message the way the
\* LoadServices future of a scope hands it on
DeliverBuiltCatalog ==
    /\ invoked.fn = "list_services"
    /\ invoked.returned
    /\ handled = NoMessage
    /\ \E scope \in ServiceScope :
          LET message == LoadResult(scope, invoked.input.connected, invoked.input.listed,
                                    invoked.input.units, invoked.input.unreadable)
          IN  /\ update_message(message, queue)
              /\ handled' = message
    /\ finished' = NoFuture
    /\ before' = Snapshot
    /\ UNCHANGED <<host, events, invoked>>

CallsInit ==
    /\ Started
    /\ \E input \in ListServicesCalls \cup RunnerCalls \cup LogsCalls
                      \cup ViewServicesListCalls \cup ViewServiceDetailCalls :
          invoked = Pending(input)

CallsNext ==
    \/ CallListServices
    \/ CallEnableService
    \/ CallDisableService
    \/ CallGetServiceLogs
    \/ CallViewServicesList
    \/ CallViewServiceDetail
    \/ DeliverBuiltCatalog

Calls == CallsInit /\ [][CallsNext]_vars

----------------------------------------------------------------------------
(* The futures run call by call, every call succeeding *)

\* the RefreshCurrentService future made its ListUnits call: it holds the reply
RefreshLists ==
    \E task \in BagToSet(tasks) :
        /\ task.kind = "Refresh"
        /\ "units" \notin DOMAIN task
        /\ tasks' = (tasks (-) SetToBag({task}))
                        (+) SetToBag({task @@ [units |-> host[task.scope]]})
        /\ handled' = NoMessage
        /\ finished' = NoFuture
        /\ before' = Snapshot
        /\ UNCHANGED <<app, queue, host, events, invoked>>

\* the future looked its unit up in the reply it holds, ran journalctl and
\* completed
RefreshReturns ==
    \E task \in BagToSet(tasks) :
        /\ task.kind = "Refresh"
        /\ "units" \in DOMAIN task
        /\ \E flatpak \in BOOLEAN :
              \E outcome \in RefreshOutcomes(task.units, task.name,
                                logs_argv(task.name, LOG_LINES, flatpak)) :
                  /\ ~Failed(outcome)
                  /\ Finish(task, outcome, NoNote,
                            RefreshResult(task.name, outcome.connected, outcome.called,
                                          task.units, AllReadable, flatpak,
                                          outcome.output))
        /\ UNCHANGED host

LoadSucceeds == RunLoad /\ ~finished'.failed
LogsSucceed == RunLogs /\ ~finished'.failed
BusCommandSucceeds == RunBusCommand /\ ~finished'.failed
SystemctlCommandSucceeds == RunSystemctlCommand /\ ~finished'.failed

\* the scope is never switched, the host changes only by the commands
StepwiseNext ==
    \/ PressService
    \/ PressBack
    \/ PressCommand
    \/ TimerTick
    \/ Deliver
    \/ LoadSucceeds
    \/ LogsSucceed
    \/ BusCommandSucceeds
    \/ SystemctlCommandSucceeds
    \/ RefreshLists
    \/ RefreshReturns

Stepwise == Init /\ [][StepwiseNext]_vars

----------------------------------------------------------------------------
(* Reading the history variables *)

Catalog(scope) == IF scope = System THEN system_services ELSE user_services
CatalogBefore(scope) ==
    IF scope = System THEN before.system_services ELSE before.user_services
OtherScope(scope) == IF scope = System THEN User ELSE System

\* the messages that were waiting behind the one the last step handled
WaitingBefore ==
    IF handled.type \in {"LoadServices", "ServicesLoaded", "LogsLoaded",
                         "ServiceActionComplete", "RefreshCurrentService",
                         "CurrentServiceRefreshed"}
    THEN Tail(before.queue)
    ELSE before.queue

\* what the last step's handler returned: nothing, one future, one message
StartedNothing == tasks = before.tasks /\ queue = WaitingBefore
StartedOnly(task) == tasks = before.tasks (+) SetToBag({task}) /\ queue = WaitingBefore
EmittedOnly(message) == tasks = before.tasks /\ queue = Append(WaitingBefore, message)

CachesUnchanged ==
    /\ system_services = before.system_services
    /\ user_services = before.user_services
    /\ selected_service = before.selected_service
    /\ current_scope = before.current_scope
    /\ service_logs = before.service_logs
    /\ is_loading = before.is_loading
    /\ search_filter = before.search_filter
    /\ current_page = before.current_page
    /\ nav_active = before.nav_active

----------------------------------------------------------------------------
(* Claims *)

\* C1: when a unit is selected and a ServicesLoaded completion carries a
\* catalog that has a unit of the selected name, the selection afterwards is
\* non-empty, has the same name, and is that unit's record of the new catalog.
C1_SelectionSurvivesReload ==
    ( /\ handled.type = "ServicesLoaded"
      /\ IsSome(before.selected_service)
      /\ HasUnit(handled.services, Unwrap(before.selected_service).name) )
    => /\ IsSome(selected_service)
       /\ Unwrap(selected_service).name = Unwrap(before.selected_service).name
       /\ \E i \in 1..Len(handled.services) :
             /\ handled.services[i] = Unwrap(selected_service)
             /\ Catalog(handled.scope)[i] = Unwrap(selected_service)

\* a reload rebinds a selection whose subState went from running to dead
C1_Witness ==
    /\ handled.type = "ServicesLoaded"
    /\ IsSome(before.selected_service)
    /\ IsSome(selected_service)
    /\ Unwrap(before.selected_service).sub_state = "running"
    /\ Unwrap(selected_service).sub_state = "dead"

\* C2: when a unit is selected and a ServicesLoaded completion carries a
\* catalog without a unit of the selected name, the selection afterwards is
\* empty and the completion starts no future and emits no message.
C2_SelectionLost ==
    ( /\ handled.type = "ServicesLoaded"
      /\ IsSome(before.selected_service)
      /\ ~HasUnit(handled.services, Unwrap(before.selected_service).name) )
    => /\ selected_service = None
       /\ StartedNothing

\* a reload whose catalog still has units, but not the selected one
C2_Witness ==
    /\ handled.type = "ServicesLoaded"
    /\ handled.services # <<>>
    /\ IsSome(before.selected_service)
    /\ ~HasUnit(handled.services, Unwrap(before.selected_service).name)
    /\ selected_service = None

\* C3: when a targeted refresh that built its catalog and did not find the
\* selected name delivers CurrentServiceRefreshed without a unit, the
\* selection is empty after the message is handled.
C3_VanishedUnitClearsSelection ==
    [][ ( /\ finished.kind = "Refresh"
          /\ ~finished.failed
          /\ finished.message.service = None
          /\ queue = <<finished.message>>
          /\ IsSome(selected_service)
          /\ Unwrap(selected_service).name = finished.task.name
          /\ handled'.type = "CurrentServiceRefreshed" )
        => selected_service' = None ]_vars

\* C4: a LogsLoaded completion that arrives when nothing is selected leaves
\* service_logs and every other cached field as they were.
C4_StaleLogsDiscarded ==
    (handled.type = "LogsLoaded" /\ before.selected_service = None)
    => CachesUnchanged

\* C5: a CurrentServiceRefreshed completion that arrives when nothing is
\* selected, or when another unit than the one it carries is selected, leaves
\* the selection and the log text as they were.
C5_StaleRefreshDiscarded ==
    ( /\ handled.type = "CurrentServiceRefreshed"
      /\ \/ before.selected_service = None
         \/ /\ IsSome(handled.service)
            /\ Unwrap(handled.service).name # Unwrap(before.selected_service).name )
    => /\ selected_service = before.selected_service
       /\ service_logs = before.service_logs

\* C6: handling a command message only starts the command's future; that
\* future, whatever its calls met, completes with exactly one
\* ServiceActionComplete; handling ServiceActionComplete emits exactly one
\* LoadServices, for the scope current at that moment, and nothing else.
C6_CommandCompletionReloadsOnce ==
    /\ handled.type \in CommandTypes
        => /\ StartedOnly(TaskCommand(handled.type, before.current_scope, handled.name))
           /\ CachesUnchanged
    /\ finished.kind = "Command"
        => /\ finished.message = MsgServiceActionComplete
           /\ queue = Append(before.queue, MsgServiceActionComplete)
           /\ tasks = before.tasks (-) SetToBag({finished.task})
    /\ handled.type = "ServiceActionComplete"
        => /\ EmittedOnly(MsgLoadServices(before.current_scope))
           /\ CachesUnchanged

\* a command completion was handled, after the scope was switched under way
C6_Witness ==
    /\ handled.type = "ServiceActionComplete"
    /\ queue # <<>>
    /\ queue[Len(queue)] = MsgLoadServices(User)
    /\ current_scope = User
    /\ nav_active = PageUserServices

\* C7: enable_service and disable_service return Ok exactly when the
\* subprocess was spawned and exited with status 0; a non-zero exit gives an
\* error that ends in the captured stderr text, a spawn failure an error.
C7_RunnerResult ==
    ( /\ finished.kind = "Command"
      /\ finished.task.command \in {"EnableService", "DisableService"}
      /\ finished.note # NoNote )
    => LET output == finished.note.output
           result == finished.note.result
       IN  /\ result.ok <=> (output.spawned /\ output.status = 0)
           /\ (output.spawned /\ output.status # 0)
                => /\ ~result.ok
                   /\ output.stderr # EmptyString
                   /\ EndsWith(result.error, output.stderr)
           /\ ~output.spawned => ~result.ok

\* systemctl enable exited 1 and enable_service returned the error
C7_Witness ==
    /\ finished.kind = "Command"
    /\ finished.task.command = "EnableService"
    /\ finished.note # NoNote
    /\ finished.note.output.spawned
    /\ finished.note.output.status = 1
    /\ ~finished.note.result.ok

\* C8: when the future of LoadServices(S) fails, handling the completion it
\* delivers leaves scope S's cached catalog empty.
C8_FailedReloadEmptiesItsScope ==
    [][ ( /\ finished.kind = "Load"
          /\ finished.failed
          /\ queue = <<finished.message>>
          /\ handled'.type = "ServicesLoaded" )
        => IF finished.task.scope = System
           THEN system_services' = <<>>
           ELSE user_services' = <<>> ]_vars

\* C9: handling the completion of a reload or a targeted refresh that was
\* requested for one scope leaves the other scope's cached catalog unchanged.
C9_ScopeIsolation ==
    [][ ( /\ finished.kind \in {"Load", "Refresh"}
          /\ queue = <<finished.message>>
          /\ handled'.type \in {"ServicesLoaded", "CurrentServiceRefreshed"} )
        => IF finished.task.scope = System
           THEN user_services' = user_services
           ELSE system_services' = system_services ]_vars

\* C10: handling LoadServices(S) sets is_loading, sets current_scope to S and
\* starts one catalog build for S; handling ServicesLoaded(S, list) stores
\* list as S's catalog, clears is_loading, and leaves the other scope's
\* catalog, the log text and the search filter as they were.
C10_FullReloadCycle ==
    /\ handled.type = "LoadServices"
        => /\ is_loading
           /\ current_scope = handled.scope
           /\ StartedOnly(TaskLoad(handled.scope))
    /\ handled.type = "ServicesLoaded"
        => /\ Catalog(handled.scope) = handled.services
           /\ ~is_loading
           /\ Catalog(OtherScope(handled.scope)) = CatalogBefore(OtherScope(handled.scope))
           /\ service_logs = before.service_logs
           /\ search_filter = before.search_filter
           /\ StartedNothing

\* a reload of the User scope replaced its catalog while the System catalog,
\* a log text and a search filter were there to be kept
C10_Witness ==
    /\ handled.type = "ServicesLoaded"
    /\ handled.scope = User
    /\ handled.services # <<>>
    /\ before.is_loading
    /\ before.user_services # handled.services
    /\ before.system_services # <<>>
    /\ before.search_filter # EmptyString

\* C11: when a ServicesLoaded completion finds the selected name in the new
\* catalog, handling it starts a log fetch for that unit.
C11_RebindRefetchesLogs ==
    ( /\ handled.type = "ServicesLoaded"
      /\ IsSome(before.selected_service)
      /\ HasUnit(handled.services, Unwrap(before.selected_service).name) )
    => \E scope \in ServiceScope :
          StartedOnly(TaskLogs(scope, Unwrap(before.selected_service).name))

\* C12: handling SelectService(u) makes u the selection and starts exactly one
\* log fetch, for u's name on the scope current at that moment, whatever is
\* already in flight; the fetch is for that unit's 100 most recent lines.
C12_SelectFetchesLogs ==
    handled.type = "SelectService"
    => /\ selected_service = Some(handled.service)
       /\ StartedOnly([kind |-> "Logs", scope |-> before.current_scope,
                       name |-> handled.service.name, lines |-> 100])

\* a unit is selected while an earlier log fetch is still in flight
C12_Witness ==
    /\ handled.type = "SelectService"
    /\ BagIn(TaskLogs(before.current_scope, handled.service.name), before.tasks)
    /\ CopiesIn(TaskLogs(before.current_scope, handled.service.name), tasks) = 2

\* C13: every future the handlers start completes, on every path, with
\* exactly one message of the type of its operation, and no future leaves
\* the set of running ones in any other way.
C13_DefiniteOutcome ==
    /\ finished.kind # "None"
        => /\ BagIn(finished.task, before.tasks)
           /\ tasks = before.tasks (-) SetToBag({finished.task})
           /\ queue = Append(before.queue, finished.message)
           /\ finished.message.type =
                 CASE finished.kind = "Load" -> "ServicesLoaded"
                   [] finished.kind = "Logs" -> "LogsLoaded"
                   [] finished.kind = "Refresh" -> "CurrentServiceRefreshed"
                   [] finished.kind = "Command" -> "ServiceActionComplete"
    /\ finished.kind = "None" => before.tasks \sqsubseteq tasks

\* a targeted refresh that could not list the units still delivered its message
C13_Witness ==
    /\ finished.kind = "Refresh"
    /\ finished.failed
    /\ queue # <<>>
    /\ queue[Len(queue)] = MsgCurrentServiceRefreshed(None, EmptyString)

\* C20: handling SearchFilterChanged(text) stores text as the search filter,
\* changes no other cached field and starts nothing.
C20_FilterFrame ==
    handled.type = "SearchFilterChanged"
    => /\ search_filter = handled.filter
       /\ system_services = before.system_services
       /\ user_services = before.user_services
       /\ selected_service = before.selected_service
       /\ service_logs = before.service_logs
       /\ is_loading = before.is_loading
       /\ current_scope = before.current_scope
       /\ StartedNothing

\* a filter is typed over a loaded catalog while a reload is in flight
C20_Witness ==
    /\ handled.type = "SearchFilterChanged"
    /\ search_filter # EmptyString
    /\ before.search_filter = EmptyString
    /\ system_services # <<>>
    /\ is_loading
    /\ tasks # EmptyBag

WellNamed(services) ==
    /\ \A i \in 1..Len(services) : EndsWith(services[i].name, SERVICE_SUFFIX)
    /\ \A i, j \in 1..Len(services) : services[i].name = services[j].name => i = j

\* C14: in every catalog a reload's list_services produced, and in both
\* cached catalogs, every name ends in ".service" and no name occurs twice.
C14_CatalogNames ==
    /\ WellNamed(system_services)
    /\ WellNamed(user_services)
    /\ finished.kind = "Load" => WellNamed(finished.message.services)
    /\ (finished.kind = "Refresh" /\ IsSome(finished.message.service))
        => EndsWith(Unwrap(finished.message.service).name, SERVICE_SUFFIX)

\* the manager lists two services and a socket; the catalog has the two
C14_Witness ==
    /\ handled.type = "ServicesLoaded"
    /\ handled.scope = System
    /\ Len(host[System]) = 3
    /\ HasUnit(host[System], dbus_socket)
    /\ Len(system_services) = 2

\* the rows of a ListUnits reply that name services
ServiceRows(units) == {i \in 1..Len(units) : EndsWith(units[i].name, SERVICE_SUFFIX)}

\* the unit objects whose enablement state cannot be read, one way or the other
Degraded(unreadable) == unreadable.proxy \cup unreadable.property

\* C15: the catalog build fails exactly when the connection or the ListUnits
\* call fails; when it succeeds every listed service has its record, and a
\* service whose enablement-state read failed has it with the state "unknown".
C15_BuildFailsOnlyAsAWhole ==
    (invoked.fn = "list_services" /\ invoked.returned)
    => LET input == invoked.input
           result == invoked.result
       IN  /\ result.ok <=> (input.connected /\ input.listed)
           /\ result.ok =>
                /\ Len(result.value) = Cardinality(ServiceRows(input.units))
                /\ \A i \in ServiceRows(input.units) :
                      \E j \in 1..Len(result.value) :
                          /\ result.value[j].name = input.units[i].name
                          /\ input.units[i].unit_object_path \in Degraded(input.unreadable)
                               => result.value[j].unit_file_state = "unknown"

\* the proxy of one of two listed services could not be made; both are emitted
C15_Witness ==
    /\ invoked.fn = "list_services"
    /\ invoked.returned
    /\ invoked.result.ok
    /\ Len(invoked.result.value) = 2
    /\ \E i \in 1..Len(invoked.input.units) :
          /\ invoked.input.units[i].name = foo_service
          /\ invoked.input.units[i].unit_object_path \in invoked.input.unreadable.proxy
    /\ \E j \in 1..2 :
          /\ invoked.result.value[j].name = foo_service
          /\ invoked.result.value[j].unit_file_state = "unknown"

\* C16: when the build succeeds, every record holds the name, description,
\* load, active and sub state and path the manager listed for its unit,
\* whether or not the unit's enablement-state read failed; only the
\* enablement state is replaced, by "unknown", and only for a unit whose
\* read failed.
C16_DegradePerField ==
    (invoked.fn = "list_services" /\ invoked.returned
        /\ invoked.input.connected /\ invoked.input.listed)
    => /\ invoked.result.ok
       /\ \A j \in 1..Len(invoked.result.value) :
             \E i \in 1..Len(invoked.input.units) :
                LET u == invoked.input.units[i]
                    record == invoked.result.value[j]
                IN  /\ record.name = u.name
                    /\ record.description = u.description
                    /\ record.load_state = u.load_state
                    /\ record.active_state = u.active_state
                    /\ record.sub_state = u.sub_state
                    /\ record.unit_path = u.unit_object_path
                    /\ record.unit_file_state =
                          IF u.unit_object_path \in Degraded(invoked.input.unreadable)
                          THEN "unknown" ELSE u.UnitFileState

\* the property read of a running service failed: it is still active and
\* running in its record, next to a service that was read in full
C16_Witness ==
    /\ invoked.fn = "list_services"
    /\ invoked.returned
    /\ invoked.result.ok
    /\ invoked.input.unreadable = [proxy |-> {}, property |-> {"/unit/foo"}]
    /\ Len(invoked.result.value) = 2
    /\ \E j, k \in 1..2 :
          /\ invoked.result.value[j].name = foo_service
          /\ invoked.result.value[j].unit_file_state = "unknown"
          /\ invoked.result.value[j].active_state = "active"
          /\ invoked.result.value[j].sub_state = "running"
          /\ invoked.result.value[k].name = bar_service
          /\ invoked.result.value[k].unit_file_state = "disabled"

\* C17: enable_service and disable_service run flatpak-spawn --host pkexec
\* systemctl <action> <name> when the marker file exists or FLATPAK_ID is
\* set at the call, and pkexec systemctl <action> <name> otherwise.
C17_SandboxAwareWrapping ==
    (invoked.fn \in {"enable_service", "disable_service"} /\ invoked.returned)
    => LET action == IF invoked.fn = "enable_service" THEN <<"enable">> ELSE <<"disable">>
           target == << <<"systemctl">>, action, invoked.input.service_name >>
       IN  invoked.argv =
              IF invoked.input.marker_exists \/ invoked.input.flatpak_id_set
              THEN << <<"flatpak-spawn">>, <<"--host">>, <<"pkexec">> >> \o target
              ELSE << <<"pkexec">> >> \o target

\* disable is called with FLATPAK_ID set and no marker file
C17_Witness ==
    /\ invoked.fn = "disable_service"
    /\ invoked.returned
    /\ ~invoked.input.marker_exists
    /\ invoked.input.flatpak_id_set
    /\ Len(invoked.argv) = 6
    /\ invoked.argv[1] = <<"flatpak-spawn">>

\* C18: get_service_logs asks journalctl for the given name when it ends in
\* ".service" and for the name with ".service" appended otherwise, so a name
\* and the same name with the suffix give the same command line, and the
\* name asked for is left unchanged by normalising it again.
C18_LogNameNormalisation ==
    (invoked.fn = "get_service_logs" /\ invoked.returned)
    => LET n == invoked.input.service_name
           flatpak == invoked.input.marker_exists \/ invoked.input.flatpak_id_set
           unit == invoked.argv[Len(invoked.argv) - 3]
       IN  /\ unit = IF EndsWith(n, SERVICE_SUFFIX) THEN n ELSE n \o SERVICE_SUFFIX
           /\ EndsWith(unit, SERVICE_SUFFIX)
           /\ invoked.argv = logs_argv(unit, invoked.input.lines, flatpak)
           /\ log_unit_name(unit) = unit

\* the name "service" has no suffix: ".service" is appended once
C18_Witness ==
    /\ invoked.fn = "get_service_logs"
    /\ invoked.returned
    /\ invoked.input.service_name = <<"s", "e", "r", "v", "i", "c", "e">>
    /\ invoked.argv[Len(invoked.argv) - 3] = <<"s", "e", "r", "v", "i", "c", "e">> \o SERVICE_SUFFIX

\* C21: when the build succeeds, every listed unit whose name ends in
\* ".service" has exactly one record of its name, holding the description,
\* load, active and sub state the manager listed and, when the unit's
\* enablement state was read, the unit-file state the manager reported; a
\* listed unit of another kind has no record, and every record's name ends
\* in ".service".
C21_CatalogRecordContent ==
    (invoked.fn = "list_services" /\ invoked.returned
        /\ invoked.input.connected /\ invoked.input.listed)
    => LET units == invoked.input.units
           records == invoked.result.value
       IN  /\ \A i \in 1..Len(units) :
                 LET u == units[i]
                     named == {j \in 1..Len(records) : records[j].name = u.name}
                 IN  IF EndsWith(u.name, SERVICE_SUFFIX)
                     THEN /\ Cardinality(named) = 1
                          /\ \A j \in named :
                                /\ records[j].description = u.description
                                /\ records[j].load_state = u.load_state
                                /\ records[j].active_state = u.active_state
                                /\ records[j].sub_state = u.sub_state
                                /\ u.unit_object_path \notin Degraded(invoked.input.unreadable)
                                     => records[j].unit_file_state = u.UnitFileState
                     ELSE named = {}
           /\ \A j \in 1..Len(records) : EndsWith(records[j].name, SERVICE_SUFFIX)

\* a socket listed between a stopped and a running service, all read in
\* full: two records, the stopped service disabled and the running enabled
C21_Witness ==
    /\ invoked.fn = "list_services"
    /\ invoked.returned
    /\ invoked.input.unreadable = AllReadable
    /\ Len(invoked.input.units) = 2
    /\ invoked.input.units[1].name = dbus_socket
    /\ invoked.input.units[2].name = foo_service
    /\ invoked.result.ok
    /\ Len(invoked.result.value) = 1
    /\ invoked.result.value[1].name = foo_service
    /\ invoked.result.value[1].active_state = "active"
    /\ invoked.result.value[1].sub_state = "running"
    /\ invoked.result.value[1].unit_file_state = "enabled"

\* C22: completions take effect in the order they arrive: a finished future's
\* message joins the end of the queue and the runtime handles the queue's
\* head. A ServicesLoaded completion leaves its scope's catalog equal to its
\* payload whatever was cached and whatever is still in flight, so of two
\* overlapping reloads of a scope the one that arrives second decides the
\* catalog; a CurrentServiceRefreshed completion with a unit overwrites the
\* selection, the log text and that unit's catalog entry in the same way.
\* Neither waits for, removes or starts a future.
C22_LastWriterWins ==
    /\ finished.kind # "None" => queue = Append(before.queue, finished.message)
    /\ handled.type \in {"ServicesLoaded", "CurrentServiceRefreshed"}
        => /\ before.queue # <<>>
           /\ handled = Head(before.queue)
           /\ queue = Tail(before.queue)
           /\ tasks = before.tasks
    /\ handled.type = "ServicesLoaded" => Catalog(handled.scope) = handled.services
    /\ (handled.type = "CurrentServiceRefreshed" /\ IsSome(handled.service))
        => LET u == Unwrap(handled.service)
               index == Position(CatalogBefore(before.current_scope), u.name)
           IN  /\ selected_service = Some(u)
               /\ service_logs = handled.logs
               /\ index # 0 => Catalog(before.current_scope)[index] = u

\* two reloads of the system scope overlapped and the host changed between
\* their builds: the first completion had cleared is_loading and stored its
\* catalog, the second one replaced it with its own, shorter one
C22_Witness ==
    /\ handled.type = "ServicesLoaded"
    /\ handled.scope = System
    /\ ~before.is_loading
    /\ Len(before.system_services) = 2
    /\ Len(handled.services) = 1
    /\ system_services = handled.services
    /\ system_services # before.system_services

\* C23: once a command has changed the host, every call has succeeded and
\* nothing is in flight or waiting any more, the cached catalog of the
\* current scope is the catalog of the host as the command left it.
C23_CommandEffectObserved ==
    (host # HostInit /\ tasks = EmptyBag /\ queue = <<>>)
    => Catalog(current_scope) = list_services(host[current_scope], AllReadable)

\* C24: handling CurrentServiceRefreshed with a unit u changes, besides the
\* selection and the log text, at most the entry named u.name of the current
\* scope's catalog, which becomes u: that catalog keeps its length and the
\* names at every position, every entry of another name is as it was, and a
\* catalog without an entry named u.name is left as it was. The other
\* scope's catalog, is_loading, the search filter, the scope, the page and
\* the nav item are unchanged, and nothing is started.
C24_TargetedMergeIsLocal ==
    (handled.type = "CurrentServiceRefreshed" /\ IsSome(handled.service))
    => LET u == Unwrap(handled.service)
           scope == before.current_scope
           old == CatalogBefore(scope)
           new == Catalog(scope)
       IN  /\ Len(new) = Len(old)
           /\ \A i \in 1..Len(old) :
                 /\ new[i].name = old[i].name
                 /\ new[i] # old[i] => (old[i].name = u.name /\ new[i] = u)
           /\ ~HasUnit(old, u.name) => new = old
           /\ Catalog(OtherScope(scope)) = CatalogBefore(OtherScope(scope))
           /\ is_loading = before.is_loading
           /\ search_filter = before.search_filter
           /\ current_scope = before.current_scope
           /\ current_page = before.current_page
           /\ nav_active = before.nav_active
           /\ StartedNothing

\* a refresh brought a changed record of the selected unit: its entry of the
\* two-entry catalog is replaced, the other entry stays
C24_Witness ==
    /\ handled.type = "CurrentServiceRefreshed"
    /\ IsSome(handled.service)
    /\ Len(before.system_services) = 2
    /\ current_scope = System
    /\ \E i, j \in 1..2 :
          /\ before.system_services[i].name = Unwrap(handled.service).name
          /\ before.system_services[i] # Unwrap(handled.service)
          /\ system_services[i] = Unwrap(handled.service)
          /\ j # i
          /\ system_services[j] = before.system_services[j]

\* C25: a Tick handled with nothing selected changes no cached field and
\* starts nothing; a Tick handled with a unit selected changes no cached
\* field and emits one RefreshCurrentService. RefreshCurrentService handled
\* with a unit selected starts one refresh future, for that unit's name and
\* the scope current at that moment, and handled with nothing selected
\* starts nothing. The refresh future completes with
\* CurrentServiceRefreshed: a unit it carries is the record of its name in
\* the catalog built from the host, without a unit it carries no log text,
\* and when its calls succeeded it carries the unit whenever the built
\* catalog has it, with the journal of that unit.
C25_PeriodicTick ==
    /\ handled.type = "Tick"
        => /\ CachesUnchanged
           /\ IF IsSome(before.selected_service)
              THEN EmittedOnly(MsgRefreshCurrentService)
              ELSE StartedNothing
    /\ handled.type = "RefreshCurrentService"
        => /\ CachesUnchanged
           /\ IF IsSome(before.selected_service)
              THEN StartedOnly(TaskRefresh(before.current_scope,
                                           Unwrap(before.selected_service).name))
              ELSE StartedNothing
    /\ finished.kind = "Refresh"
        => LET built == list_services(host[finished.task.scope], AllReadable)
               found == Find(built, finished.task.name)
               message == finished.message
           IN  /\ message.type = "CurrentServiceRefreshed"
               /\ message.service \in {None, found}
               /\ message.service = None => message.logs = EmptyString
               /\ ~finished.failed
                    => /\ message.service = found
                       /\ IsSome(found) => message.logs = Journal(finished.task.name)

\* the user scope was opened and its unit selected; the Tick's
\* RefreshCurrentService started the refresh of that unit in the user scope
C25_Witness ==
    /\ handled.type = "RefreshCurrentService"
    /\ IsSome(before.selected_service)
    /\ before.current_scope = User
    /\ BagIn(TaskRefresh(User, foo_service), tasks)
    /\ ~BagIn(TaskRefresh(User, foo_service), before.tasks)

\* C26: activating a nav item leaves nothing selected, emits exactly one
\* LoadServices for the scope of that item and starts nothing else, and
\* leaves both cached catalogs, the log text and current_scope as they were;
\* handling that LoadServices sets current_scope to its scope, starts exactly
\* one reload future of that scope and leaves both catalogs as they were.
C26_ScopeSwitch ==
    /\ handled.type = "on_nav_select"
        => LET scope == IF handled.page = PageSystemServices THEN System ELSE User
           IN  /\ selected_service = None
               /\ nav_active = handled.page
               /\ EmittedOnly(MsgLoadServices(scope))
               /\ system_services = before.system_services
               /\ user_services = before.user_services
               /\ current_scope = before.current_scope
               /\ service_logs = before.service_logs
    /\ handled.type = "LoadServices"
        => /\ current_scope = handled.scope
           /\ StartedOnly(TaskLoad(handled.scope))
           /\ system_services = before.system_services
           /\ user_services = before.user_services

\* the user item is activated while a unit of the loaded system catalog is
\* selected
C26_Witness ==
    /\ handled.type = "on_nav_select"
    /\ handled.page = PageUserServices
    /\ before.current_scope = System
    /\ IsSome(before.selected_service)
    /\ selected_service = None
    /\ Len(system_services) = 2
    /\ queue[Len(queue)] = MsgLoadServices(User)

\* C27: when the build succeeds, every service unit file installed on the
\* host has a record in the catalog, with its enablement state when that
\* could be read, whether or not the manager has the unit loaded.
C27_InstalledUnitsListed ==
    (invoked.fn = "list_services" /\ invoked.returned /\ invoked.result.ok)
    => \A file \in invoked.input.unit_files :
          EndsWith(file.name, SERVICE_SUFFIX)
            => \E j \in 1..Len(invoked.result.value) :
                  /\ invoked.result.value[j].name = file.name
                  /\ invoked.result.value[j].unit_file_state \in {file.state, "unknown"}

\* C28: when the build succeeds, the names of the catalog's records are the
\* names of the listed units that end in ".service", in the order of the
\* listing; the ServicesLoaded completion that carries the catalog leaves
\* its scope's cached catalog equal to it, record by record.
C28_CatalogOrderIsListingOrder ==
    (invoked.fn = "list_services" /\ invoked.returned /\ invoked.result.ok)
    => LET units == invoked.input.units
           records == invoked.result.value
           IsService(name) == EndsWith(name, SERVICE_SUFFIX)
       IN  /\ [j \in 1..Len(records) |-> records[j].name]
                = SelectSeq([i \in 1..Len(units) |-> units[i].name], IsService)
           /\ handled.type = "ServicesLoaded"
                => /\ handled.services = records
                   /\ Catalog(handled.scope) = records

\* foo.service was listed before bar.service: the catalog and, once the
\* completion is handled, the cache of the user scope hold them in that order
C28_Witness ==
    /\ invoked.fn = "list_services"
    /\ invoked.returned
    /\ invoked.result.ok
    /\ Len(invoked.input.units) = 2
    /\ invoked.input.units[1].name = foo_service
    /\ invoked.input.units[2].name = bar_service
    /\ handled.type = "ServicesLoaded"
    /\ handled.scope = User
    /\ Len(user_services) = 2
    /\ user_services[1].name = foo_service
    /\ user_services[2].name = bar_service

\* two characters that are the same letter, whatever their case
SameLetter(a, b) ==
    \/ a = b
    \/ \E k \in 1..Len(UpperCase) : {a, b} = {UpperCase[k], LowerCase[k]}

\* the text has the filter's letters, in any case, at consecutive places
HasIgnoringCase(text, filter) ==
    \E offset \in 0..(Len(text) - Len(filter)) :
        \A t \in 1..Len(filter) : SameLetter(text[offset + t], filter[t])

\* C29: the rows the list view builds from a catalog and a filter text are
\* the records whose name or description has the filter as a substring when
\* case is ignored, in the catalog's order; with an empty filter they are the
\* whole catalog.
C29_SearchFilterProjection ==
    (invoked.fn = "view_services_list" /\ invoked.returned)
    => LET services == invoked.input.services
           filter == invoked.input.search_filter
           Shown(service) ==
              \/ HasIgnoringCase(service.name, filter)
              \/ HasIgnoringCase(service.description, filter)
       IN  /\ invoked.result = SelectSeq(services, Shown)
           /\ filter = EmptyString => invoked.result = services

\* the filter "FO" typed in capitals shows foo.service and hides bar.service
C29_Witness ==
    /\ invoked.fn = "view_services_list"
    /\ invoked.returned
    /\ invoked.input.search_filter = <<"F", "O">>
    /\ Len(invoked.input.services) = 2
    /\ invoked.input.services[1].name = bar_service
    /\ invoked.input.services[2].name = foo_service
    /\ Len(invoked.result) = 1
    /\ invoked.result[1] = invoked.input.services[2]

\* C30: the detail view of a record can send EnableService only when the
\* record's unit_file_state is "disabled" and DisableService only when it is
\* "enabled", in both cases for the record's name; for a record in any other
\* enablement state it can send neither.
C30_ToggleFollowsEnablement ==
    (invoked.fn = "view_service_detail" /\ invoked.returned)
    => LET service == invoked.input.service
           CanSend(type) == \E message \in invoked.result : message.type = type
       IN  /\ \A message \in invoked.result : message.name = service.name
           /\ CanSend("EnableService") => service.unit_file_state = "disabled"
           /\ CanSend("DisableService") => service.unit_file_state = "enabled"
           /\ service.unit_file_state \notin {"enabled", "disabled"}
                => ~CanSend("EnableService") /\ ~CanSend("DisableService")

\* a running unit whose enablement state could not be read: it can be
\* stopped and restarted, and its toggler sends nothing
C30_Witness ==
    /\ invoked.fn = "view_service_detail"
    /\ invoked.returned
    /\ invoked.input.service.unit_file_state = "unknown"
    /\ invoked.input.service.sub_state = "running"
    /\ invoked.result = {MsgCommand("StopService", foo_service),
                         MsgCommand("RestartService", foo_service)}

\* C31: an EnableService or DisableService dispatched in the user scope
\* whose subprocess succeeds changes the enablement state of the user
\* scope's unit of that name and leaves the units of the system scope as
\* they were.
C31_UserScopeToggleActsOnUserUnits ==
    [][ ( /\ finished'.kind = "Command"
          /\ finished'.task.command \in {"EnableService", "DisableService"}
          /\ finished'.task.scope = User
          /\ ~finished'.failed )
        => /\ host'[System] = host[System]
           /\ \E i \in 1..Len(host'[User]) :
                 /\ host'[User][i].name = finished'.task.name
                 /\ host'[User][i].UnitFileState =
                       IF finished'.task.command = "EnableService"
                       THEN "enabled" ELSE "disabled" ]_vars

\* the units of a scope after its manager ran a job of `method` on `name`
AfterJob(units, method, name) ==
    [i \in 1..Len(units) |->
        IF units[i].name # name THEN units[i]
        ELSE IF method = "StopUnit"
             THEN [units[i] EXCEPT !.active_state = "inactive", !.sub_state = "dead"]
             ELSE [units[i] EXCEPT !.active_state = "active", !.sub_state = "running"]]

\* C32: handling StartService(n), StopService(n) or RestartService(n)
\* changes no cached field and starts one future for the scope current at
\* that moment; that future calls the manager method of its message,
\* StartUnit, StopUnit or RestartUnit, with the arguments (n, "replace"),
\* and when the call succeeds the job runs once on the units of the scope
\* the future was started for, wherever current_scope is by then, and on no
\* other units; when it fails the host is as it was. Completing changes no
\* cached field.
C32_BusCommandDispatch ==
    [][ LET bus == {"StartService", "StopService", "RestartService"}
            method == [StartService |-> "StartUnit", StopService |-> "StopUnit",
                       RestartService |-> "RestartUnit"]
        IN  /\ handled'.type \in bus
                => /\ tasks' = tasks (+) SetToBag({TaskCommand(handled'.type, current_scope,
                                                               handled'.name)})
                   /\ UNCHANGED app
            /\ (finished'.kind = "Command" /\ finished'.task.command \in bus)
                => LET task == finished'.task
                   IN  /\ BusCall(task.command, task.name)
                            = [method |-> method[task.command],
                               args |-> <<task.name, "replace">>]
                       /\ host' = IF finished'.failed THEN host
                                  ELSE [host EXCEPT ![task.scope] =
                                           AfterJob(@, method[task.command], task.name)]
                       /\ tasks' = tasks (-) SetToBag({task})
                       /\ UNCHANGED app ]_vars

\* StopService was handled in the system scope and the scope was switched to
\* User before its call completed: the system unit is stopped
C32_Witness ==
    /\ finished.kind = "Command"
    /\ finished.task = TaskCommand("StopService", System, foo_service)
    /\ ~finished.failed
    /\ current_scope = User
    /\ \E i \in 1..Len(host[System]) :
          /\ host[System][i].name = foo_service
          /\ host[System][i].sub_state = "dead"
    /\ host[User] = HostInit[User]

\* C33: is_loading is true exactly when a reload is in flight, that is when
\* a reload future has not completed or its ServicesLoaded is still waiting
\* to be handled.
C33_LoadingTracksReloads ==
    is_loading <=> \/ \E task \in BagToSet(tasks) : task.kind = "Load"
                   \/ \E i \in 1..Len(queue) : queue[i].type = "ServicesLoaded"

\* C34: whenever a unit is selected, the cached catalog of current_scope has
\* a unit of the selected name.
C34_SelectionBelongsToCurrentScope ==
    IsSome(selected_service)
    => HasUnit(Catalog(current_scope), Unwrap(selected_service).name)

\* C35: a ServicesLoaded completion for another scope than the one current
\* when it is handled leaves the selection as it was.
C35_OtherScopeReloadKeepsSelection ==
    (handled.type = "ServicesLoaded" /\ handled.scope # before.current_scope)
    => selected_service = before.selected_service

\* C36: when a unit is selected and no log fetch or targeted refresh is in
\* flight or waiting to be handled, service_logs is what a log fetch for the
\* selected unit's name gives: its journal, the empty text, or the notice
\* that the logs could not be loaded.
C36_LogsBelongToSelection ==
    ( /\ IsSome(selected_service)
      /\ \A task \in BagToSet(tasks) : task.kind \notin {"Logs", "Refresh"}
      /\ \A i \in 1..Len(queue) :
            queue[i].type \notin {"LogsLoaded", "CurrentServiceRefreshed",
                                  "RefreshCurrentService"} )
    => service_logs \in {Journal(log_unit_name(Unwrap(selected_service).name)),
                         EmptyString, COULD_NOT_LOAD_LOGS}

\* C37: current_page is the details page exactly when a unit is selected.
C37_PageAgreesWithSelection ==
    current_page = PageDetails <=> IsSome(selected_service)

\* C38: a refresh future whose connection or ListUnits call fails completes
\* with CurrentServiceRefreshed(None, ""), and handling a
\* CurrentServiceRefreshed without a unit leaves the selection, the log
\* text, both catalogs, is_loading and every other cached field as they
\* were and starts nothing.
C38_FailedRefreshChangesNothing ==
    /\ finished.kind = "Refresh"
        => /\ \A connected, listed, flatpak \in BOOLEAN :
                 ~(connected /\ listed)
                   => RefreshResult(finished.task.name, connected, listed,
                                    host[finished.task.scope], AllReadable, flatpak, NotRun)
                        = MsgCurrentServiceRefreshed(None, EmptyString)
           /\ (finished.failed /\ finished.message.service = None)
                => finished.message = MsgCurrentServiceRefreshed(None, EmptyString)
    /\ (handled.type = "CurrentServiceRefreshed" /\ handled.service = None)
        => /\ CachesUnchanged
           /\ StartedNothing

\* a refresh of foo.service, which the host lists in both scopes, came back
\* without a unit: the selection and the journal shown are kept
C38_Witness ==
    /\ handled = MsgCurrentServiceRefreshed(None, EmptyString)
    /\ host = HostInit
    /\ IsSome(selected_service)
    /\ Unwrap(selected_service).name = foo_service
    /\ selected_service = before.selected_service
    /\ service_logs = Journal(foo_service)
    /\ Len(system_services) = 2

====
